---- MODULE Spec2Model ----
(***************************************************************************)
(* Model of the two scripts of the repository:                             *)
(*   src/verify_performance.py  the checkpoint inspector                   *)
(*   src/train.py               the training driver                       *)
(*                                                                         *)
(* Python strings are sequences of one-character strings, so that          *)
(* splitting, stem extraction and literal parsing are computed character   *)
(* by character, as the code computes them.                                *)
(***************************************************************************)
EXTENDS Integers, Sequences, FiniteSets, TLC

(***************************************************************************)
(* Bounds of the model.                                                    *)
(***************************************************************************)
\* longest list of dash-delimited tokens a parsed filename is built from
MaxTokens == 3
\* most entries the checkpoint directory holds
MaxFiles == 3

(***************************************************************************)
(* Characters and strings.                                                 *)
(***************************************************************************)
Digits == {"0", "1", "2", "3", "4", "5", "6", "7", "8", "9"}

DigitVal(c) ==
    CASE c = "0" -> 0 [] c = "1" -> 1 [] c = "2" -> 2 [] c = "3" -> 3
      [] c = "4" -> 4 [] c = "5" -> 5 [] c = "6" -> 6 [] c = "7" -> 7
      [] c = "8" -> 8 [] c = "9" -> 9

DigitChar(d) ==
    CASE d = 0 -> "0" [] d = 1 -> "1" [] d = 2 -> "2" [] d = 3 -> "3"
      [] d = 4 -> "4" [] d = 5 -> "5" [] d = 6 -> "6" [] d = 7 -> "7"
      [] d = 8 -> "8" [] d = 9 -> "9"

Range(s) == {s[i] : i \in DOMAIN s}

RECURSIVE Pow10(_)
Pow10(k) == IF k = 0 THEN 1 ELSE 10 * Pow10(k - 1)

Abs(x) == IF x < 0 THEN -x ELSE x

\* str.split(sep): the pieces between the occurrences of sep (always >= 1 piece)
RECURSIVE SplitFrom(_, _, _, _)
SplitFrom(s, sep, i, cur) ==
    IF i > Len(s) THEN <<cur>>
    ELSE IF s[i] = sep THEN <<cur>> \o SplitFrom(s, sep, i + 1, <<>>)
    ELSE SplitFrom(s, sep, i + 1, Append(cur, s[i]))

Split(s, sep) == SplitFrom(s, sep, 1, <<>>)

\* sep.join(parts)
RECURSIVE Join(_, _)
Join(parts, sep) ==
    IF parts = <<>> THEN <<>>
    ELSE IF Len(parts) = 1 THEN parts[1]
    ELSE parts[1] \o <<sep>> \o Join(Tail(parts), sep)

\* str.rfind(c), 1-based; 0 when c does not occur
RECURSIVE RFindFrom(_, _, _)
RFindFrom(s, c, i) ==
    IF i = 0 THEN 0 ELSE IF s[i] = c THEN i ELSE RFindFrom(s, c, i - 1)

RFind(s, c) == RFindFrom(s, c, Len(s))

\* PurePath.name: the final component of the path
PathName(path) == SubSeq(path, RFind(path, "/") + 1, Len(path))

\* PurePath.stem: the name without its last suffix; a name whose only dot is
\* its first or its last character has no suffix
Stem(path) ==
    LET name == PathName(path)
        i    == RFind(name, ".")
    IN  IF 1 < i /\ i < Len(name) THEN SubSeq(name, 1, i - 1) ELSE name

\* str.endswith(suffix)
EndsWith(s, suffix) ==
    /\ Len(s) >= Len(suffix)
    /\ SubSeq(s, Len(s) - Len(suffix) + 1, Len(s)) = suffix

(***************************************************************************)
(* Python values: int, float and str.  A float read from a decimal         *)
(* literal is kept exactly, as n / 10^s with trailing zeros removed, so    *)
(* that equal floats are equal values.                                     *)
(***************************************************************************)
IntV(n) == [t |-> "int", n |-> n, s |-> 0, cs |-> <<>>]

RECURSIVE NormFloat(_, _)
NormFloat(n, s) ==
    IF s > 0 /\ n % 10 = 0 THEN NormFloat(n \div 10, s - 1)
    ELSE [t |-> "float", n |-> n, s |-> s, cs |-> <<>>]

FloatV(n, s) == NormFloat(n, s)

StrV(cs) == [t |-> "str", n |-> 0, s |-> 0, cs |-> cs]

\* float('inf')
InfV == [t |-> "inf", n |-> 0, s |-> 0, cs |-> <<>>]

\* isinstance(v, (int, float))
IsNumber(v) == v.t \in {"int", "float", "inf"}

\* a digit group of a numeric literal: digits, with single underscores
\* allowed between two digits
DigitGroup(cs) ==
    /\ cs # <<>>
    /\ Range(cs) \subseteq Digits \cup {"_"}
    /\ cs[1] # "_"
    /\ cs[Len(cs)] # "_"
    /\ \A i \in 1..(Len(cs) - 1) : ~(cs[i] = "_" /\ cs[i + 1] = "_")

RECURSIVE GroupVal(_, _)
GroupVal(cs, acc) ==
    IF cs = <<>> THEN acc
    ELSE IF Head(cs) = "_" THEN GroupVal(Tail(cs), acc)
    ELSE GroupVal(Tail(cs), 10 * acc + DigitVal(Head(cs)))

RECURSIVE CountDigits(_)
CountDigits(cs) ==
    IF cs = <<>> THEN 0
    ELSE (IF Head(cs) = "_" THEN 0 ELSE 1) + CountDigits(Tail(cs))

\* the literal without its optional leading plus sign (a minus sign cannot
\* reach a value: the dash is the token delimiter)
Unsigned(cs) == IF cs # <<>> /\ cs[1] = "+" THEN Tail(cs) ELSE cs

\* int(value): a record [ok, v]; ok = FALSE stands for ValueError
PyInt(cs) ==
    LET body == Unsigned(cs)
    IN  IF DigitGroup(body)
        THEN [ok |-> TRUE, v |-> IntV(GroupVal(body, 0))]
        ELSE [ok |-> FALSE, v |-> StrV(cs)]

\* float(value) for a value that contains a dot: [ok, v]
PyFloat(cs) ==
    LET body  == Unsigned(cs)
        parts == Split(body, ".")
        ip    == parts[1]
        fp    == parts[2]
    IN  IF /\ Len(parts) = 2
           /\ (ip = <<>> \/ DigitGroup(ip))
           /\ (fp = <<>> \/ DigitGroup(fp))
           /\ ~(ip = <<>> /\ fp = <<>>)
        THEN [ok |-> TRUE,
              v  |-> FloatV(GroupVal(ip, 0) * Pow10(CountDigits(fp)) + GroupVal(fp, 0),
                            CountDigits(fp))]
        ELSE [ok |-> FALSE, v |-> StrV(cs)]

\* ord(c), for the characters the model's strings are made of
Ord(c) ==
    CASE c = "a" -> 97 [] c = "b" -> 98 [] c = "c" -> 99
      [] c = "d" -> 100 [] c = "e" -> 101 [] c = "f" -> 102
      [] c = "g" -> 103 [] c = "h" -> 104 [] c = "i" -> 105
      [] c = "j" -> 106 [] c = "k" -> 107 [] c = "l" -> 108
      [] c = "m" -> 109 [] c = "n" -> 110 [] c = "o" -> 111
      [] c = "p" -> 112 [] c = "q" -> 113 [] c = "r" -> 114
      [] c = "s" -> 115 [] c = "t" -> 116 [] c = "u" -> 117
      [] c = "v" -> 118 [] c = "w" -> 119 [] c = "x" -> 120
      [] c = "y" -> 121 [] c = "z" -> 122 [] c = "0" -> 48
      [] c = "1" -> 49 [] c = "2" -> 50 [] c = "3" -> 51
      [] c = "4" -> 52 [] c = "5" -> 53 [] c = "6" -> 54
      [] c = "7" -> 55 [] c = "8" -> 56 [] c = "9" -> 57
      [] c = "." -> 46 [] c = "_" -> 95 [] c = "+" -> 43
      [] c = "=" -> 61 [] c = "/" -> 47

\* str < str: lexicographic by code point, a proper prefix first
RECURSIVE StrLess(_, _)
StrLess(a, b) ==
    IF b = <<>> THEN FALSE
    ELSE IF a = <<>> THEN TRUE
    ELSE IF Head(a) = Head(b) THEN StrLess(Tail(a), Tail(b))
    ELSE Ord(Head(a)) < Ord(Head(b))

Max(x, y) == IF x >= y THEN x ELSE y

\* the numerator of the finite number v over the denominator 10^s (s >= v.s)
Scaled(v, s) == v.n * Pow10(s - v.s)

\* int/float < int/float, exactly; float('inf') is above every finite value
NumLess(a, b) ==
    IF a.t = "inf" THEN FALSE
    ELSE IF b.t = "inf" THEN TRUE
    ELSE Scaled(a, Max(a.s, b.s)) < Scaled(b, Max(a.s, b.s))

(***************************************************************************)
(* Names used by the scripts.                                              *)
(***************************************************************************)
S_checkpoints == <<"c", "h", "e", "c", "k", "p", "o", "i", "n", "t", "s">>
S_ckpt == <<".", "c", "k", "p", "t">>
K_val_loss == <<"v", "a", "l", "_", "l", "o", "s", "s">>
K_accuracy == <<"a", "c", "c", "u", "r", "a", "c", "y">>
K_f1 == <<"f", "1">>


(***************************************************************************)
(* verify_performance.py: extract_metrics_from_checkpoint                  *)
(***************************************************************************)
\* a loop that unpacks every part, with or without '='
HasEq_Always(part) == TRUE

\* '=' in part
HasEq(part) == "=" \in Range(part)

\* '.' in value
HasDot(value) == "." \in Range(value)

\* a conversion that never tries int(value)
Coerce_FloatOnly(value) ==
    IF HasDot(value) /\ PyFloat(value).ok THEN PyFloat(value).v ELSE StrV(value)

\* float(value) if '.' in value else int(value); on ValueError the value
\* itself
Coerce(value) ==
    LET r == IF HasDot(value) THEN PyFloat(value) ELSE PyInt(value)
    IN  IF r.ok THEN r.v ELSE StrV(value)

\* metrics[key] = v
DictSet(metrics, key, v) ==
    [k \in (DOMAIN metrics) \cup {key} |-> IF k = key THEN v ELSE metrics[k]]

\* dict.get(key, default)
DictGet(metrics, key, default) ==
    IF key \in DOMAIN metrics THEN metrics[key] ELSE default

EmptyDict == [k \in {} |-> InfV]

\* the loop over the parts; the unpacking key, value = part.split('=')
\* raises ValueError, outside the inner try, unless the part has exactly one
\* '='
RECURSIVE ExtractLoop(_, _, _)
ExtractLoop(parts, i, metrics) ==
    IF i > Len(parts) THEN [raised |-> FALSE, metrics |-> metrics]
    ELSE IF ~HasEq(parts[i]) THEN ExtractLoop(parts, i + 1, metrics)
    ELSE LET kv == Split(parts[i], "=")
         IN  IF Len(kv) # 2 THEN [raised |-> TRUE, metrics |-> metrics]
             ELSE ExtractLoop(parts, i + 1,
                              DictSet(metrics, kv[1], Coerce(kv[2])))

\* extract_metrics_from_checkpoint(checkpoint_path): what it returns and
\* whether it printed "Error extracting metrics"
extract_metrics_from_checkpoint(checkpoint_path) ==
    LET filename == Stem(checkpoint_path)
        parts    == Split(filename, "-")
        r        == ExtractLoop(parts, 1, EmptyDict)
    IN  IF r.raised THEN [metrics |-> EmptyDict, printed_error |-> TRUE]
        ELSE [metrics |-> r.metrics, printed_error |-> FALSE]

\* str(Path(checkpoint_dir) / name)
PathIn(checkpoint_dir, name) == checkpoint_dir \o <<"/">> \o name


(***************************************************************************)
(* Inputs: the tokens filenames are built from, and the directory entries. *)
(***************************************************************************)
TokenPool == {
    <<"a", "=", "1">>,                         \* a=1: int
    <<"b", "=", "2", ".", "5">>,               \* b=2.5: float
    <<"c", "=", "t", "e", "x", "t">>,          \* c=text: str
    <<"a", "=", "1", ".", "2", ".", "3">>,     \* a=1.2.3: has a dot, no float literal
    <<"b", "=">>,                              \* b=: empty value
    <<"c", "=", "1", "_", "0">>,               \* c=1_0: int literal with an underscore
    <<"a", "=", "+", "7">>,                    \* a=+7: signed int literal
    <<"x">>,                                   \* x: no =
    <<>>,                                      \* (empty): empty token
    <<"b", "=", "2", "=", "3">>,               \* b=2=3: two = signs
    <<"x", ".", "y">>,                         \* x.y: no =, with a dot
    <<"=", "5">>                               \* =5: empty key
}

\* epoch=2-step=500-val_loss=0.3400.ckpt
F1 ==
    <<"e", "p", "o", "c", "h", "=", "2", "-", "s", "t", "e", "p", "=", "5",
      "0", "0", "-", "v", "a", "l", "_", "l", "o", "s", "s", "=", "0", ".",
      "3", "4", "0", "0", ".", "c", "k", "p", "t">>

\* epoch=1-step=230-val_loss=0.3504.ckpt
F2 ==
    <<"e", "p", "o", "c", "h", "=", "1", "-", "s", "t", "e", "p", "=", "2",
      "3", "0", "-", "v", "a", "l", "_", "l", "o", "s", "s", "=", "0", ".",
      "3", "5", "0", "4", ".", "c", "k", "p", "t">>

\* epoch=3-step=690-val_loss=0.3504.ckpt
F3 ==
    <<"e", "p", "o", "c", "h", "=", "3", "-", "s", "t", "e", "p", "=", "6",
      "9", "0", "-", "v", "a", "l", "_", "l", "o", "s", "s", "=", "0", ".",
      "3", "5", "0", "4", ".", "c", "k", "p", "t">>

\* val_loss=0.351752-accuracy=0.85446-f1=0.906395.ckpt
F4 ==
    <<"v", "a", "l", "_", "l", "o", "s", "s", "=", "0", ".", "3", "5", "1",
      "7", "5", "2", "-", "a", "c", "c", "u", "r", "a", "c", "y", "=", "0",
      ".", "8", "5", "4", "4", "6", "-", "f", "1", "=", "0", ".", "9", "0",
      "6", "3", "9", "5", ".", "c", "k", "p", "t">>

\* val_loss=0.353904-accuracy=0.87984-f1=0.92872.ckpt
F5 ==
    <<"v", "a", "l", "_", "l", "o", "s", "s", "=", "0", ".", "3", "5", "3",
      "9", "0", "4", "-", "a", "c", "c", "u", "r", "a", "c", "y", "=", "0",
      ".", "8", "7", "9", "8", "4", "-", "f", "1", "=", "0", ".", "9", "2",
      "8", "7", "2", ".", "c", "k", "p", "t">>

\* val_loss=0.3504-accuracy=0.8883-f1=0.893.ckpt
F6 ==
    <<"v", "a", "l", "_", "l", "o", "s", "s", "=", "0", ".", "3", "5", "0",
      "4", "-", "a", "c", "c", "u", "r", "a", "c", "y", "=", "0", ".", "8",
      "8", "8", "3", "-", "f", "1", "=", "0", ".", "8", "9", "3", ".", "c",
      "k", "p", "t">>

\* val_loss=best-accuracy=0.846-f1=0.893.ckpt
F7 ==
    <<"v", "a", "l", "_", "l", "o", "s", "s", "=", "b", "e", "s", "t", "-",
      "a", "c", "c", "u", "r", "a", "c", "y", "=", "0", ".", "8", "4", "6",
      "-", "f", "1", "=", "0", ".", "8", "9", "3", ".", "c", "k", "p", "t">>

\* last.ckpt
F8 ==
    <<"l", "a", "s", "t", ".", "c", "k", "p", "t">>

\* notes.txt
F9 ==
    <<"n", "o", "t", "e", "s", ".", "t", "x", "t">>

\* val_loss=1-accuracy=1-f1=1.ckpt
F10 ==
    <<"v", "a", "l", "_", "l", "o", "s", "s", "=", "1", "-", "a", "c", "c",
      "u", "r", "a", "c", "y", "=", "1", "-", "f", "1", "=", "1", ".", "c",
      "k", "p", "t">>

\* val_loss=nan.ckpt
F11 ==
    <<"v", "a", "l", "_", "l", "o", "s", "s", "=", "n", "a", "n", ".", "c",
      "k", "p", "t">>

FilePool == {F1, F2, F3, F4, F5, F6, F7, F8, F9, F10, F11}

(***************************************************************************)
(* verify_performance.py: list_checkpoints                                 *)
(***************************************************************************)
\* Path.glob("*.ckpt"): the entries whose name ends in .ckpt
Glob(entries) == {name \in entries : EndsWith(name, S_ckpt)}

\* the orders in which the directory scan may yield a set of entries
Orders(S) ==
    {f \in [1..Cardinality(S) -> S] : \A i, j \in DOMAIN f : f[i] = f[j] => i = j}

\* the record appended for one checkpoint file
CheckpointRecord(checkpoint_dir, name) ==
    [filename |-> name,
     path     |-> PathIn(checkpoint_dir, name),
     metrics  |-> extract_metrics_from_checkpoint(PathIn(checkpoint_dir, name)).metrics]

\* key=lambda x: x['metrics'].get('val_loss', float('inf'))
SortKey(x) == DictGet(x.metrics, K_val_loss, InfV)

\* a < b between two sort keys; between a str and a number Python raises
\* TypeError, which KeysComparable rules out before the sort is computed
KeyLess(a, b) ==
    IF a.t = "str" /\ b.t = "str" THEN StrLess(a.cs, b.cs) ELSE NumLess(a, b)

\* no comparison of the sort raises: the keys are all numbers or all strings
KeysComparable(recs) ==
    \A i, j \in DOMAIN recs :
        (SortKey(recs[i]).t = "str") = (SortKey(recs[j]).t = "str")

\* stable insertion: x goes before the first element greater than it
RECURSIVE InsertByKey(_, _)
InsertByKey(sorted, x) ==
    IF sorted = <<>> THEN <<x>>
    ELSE IF KeyLess(SortKey(x), SortKey(Head(sorted))) THEN <<x>> \o sorted
    ELSE <<Head(sorted)>> \o InsertByKey(Tail(sorted), x)

RECURSIVE SortedFrom(_, _, _)
SortedFrom(recs, i, acc) ==
    IF i > Len(recs) THEN acc
    ELSE SortedFrom(recs, i + 1, InsertByKey(acc, recs[i]))

\* sorted(checkpoints, key=...): stable, ascending
SortedByKey(recs) == SortedFrom(recs, 1, <<>>)

\* a scan that never checks that the directory exists
DirMissing_Unchecked(exists) == FALSE

\* not checkpoint_path.exists()
DirMissing(exists) == ~exists

\* list_checkpoints(checkpoint_dir), the scan yielding the checkpoint files
\* in the given order: whether it raised, what it returned, and whether it
\* printed "Checkpoint directory not found: <dir>"
list_checkpoints(checkpoint_dir, exists, order) ==
    IF DirMissing(exists)
    THEN [raised |-> FALSE, ret |-> <<>>, notice |-> <<checkpoint_dir>>]
    ELSE LET recs == [i \in DOMAIN order |->
                         CheckpointRecord(checkpoint_dir, order[i])]
         IN  IF KeysComparable(recs)
             THEN [raised |-> FALSE, ret |-> SortedByKey(recs), notice |-> <<>>]
             ELSE [raised |-> TRUE, ret |-> <<>>, notice |-> <<>>]

(***************************************************************************)
(* verify_performance.py: main, the comparison and the verdict             *)
(***************************************************************************)
\* expected_results
ExpectedKeys == <<K_val_loss, K_accuracy, K_f1>>

\* the expected values of print_comparison_table, whose validation loss is
\* 0.350, in the place of expected_results
expected_results_Table(key) ==
    IF key = K_val_loss THEN FloatV(350, 3)
    ELSE IF key = K_accuracy THEN FloatV(846, 3)
    ELSE FloatV(893, 3)

expected_results(key) ==
    IF key = K_val_loss THEN FloatV(3504, 4)
    ELSE IF key = K_accuracy THEN FloatV(846, 3)
    ELSE FloatV(893, 3)

\* the nearest integer to num / den (num >= 0, den > 0), ties to even
RoundDiv(num, den) ==
    LET q == num \div den
        r == num % den
    IN  IF 2 * r > den \/ (2 * r = den /\ q % 2 = 1) THEN q + 1 ELSE q

RECURSIVE NatChars(_)
NatChars(n) ==
    IF n < 10 THEN <<DigitChar(n)>>
    ELSE NatChars(n \div 10) \o <<DigitChar(n % 10)>>

RECURSIVE PadLeft(_, _)
PadLeft(cs, width) == IF Len(cs) >= width THEN cs ELSE PadLeft(<<"0">> \o cs, width)

\* the nearest integer to (num / den) * 10^d, powers of ten cancelled first
RECURSIVE ScaledRound(_, _, _)
ScaledRound(num, den, d) ==
    IF d > 0 /\ den % 10 = 0 THEN ScaledRound(num, den \div 10, d - 1)
    ELSE RoundDiv(num * Pow10(d), den)

\* format(num / den, "+.<d>f") when plus, "." <d> "f" otherwise
FormatFixed(num, den, d, plus) ==
    LET q    == ScaledRound(Abs(num), den, d)
        sign == IF num < 0 THEN <<"-">> ELSE IF plus THEN <<"+">> ELSE <<>>
    IN  sign \o NatChars(q \div Pow10(d)) \o <<".">> \o PadLeft(NatChars(q % Pow10(d)), d)

\* diff = actual - expected, as a fraction [num, den]
Diff(actual, expected) ==
    LET s == Max(actual.s, expected.s)
    IN  [num |-> Scaled(actual, s) - Scaled(expected, s), den |-> Pow10(s)]

\* diff_pct = (diff / expected) * 100, as a fraction [num, den]
DiffPct(actual, expected) ==
    [num |-> Diff(actual, expected).num * 100,
     den |-> Scaled(expected, Max(actual.s, expected.s))]

\* abs(pct) < limit
PctUnder(pct, limit) == Abs(pct.num) < limit * pct.den

\* one pass of the loop over expected_results: the line printed for a metric
ComparisonLine(docker_results, metric) ==
    LET expected == expected_results(metric)
        actual   == DictGet(docker_results, metric, StrV(<<"N", "/", "A">>))
    IN  IF IsNumber(actual)
        THEN [kind   |-> "metric",
              name   |-> metric,
              status |-> IF PctUnder(DiffPct(actual, expected), 2) THEN "ok" ELSE "warn",
              actual |-> FormatFixed(actual.n, Pow10(actual.s), 4, FALSE),
              diff   |-> FormatFixed(Diff(actual, expected).num,
                                     Diff(actual, expected).den, 4, TRUE),
              pct    |-> FormatFixed(DiffPct(actual, expected).num,
                                     DiffPct(actual, expected).den, 1, TRUE)]
        ELSE [kind |-> "metric_not_found", name |-> metric, status |-> "warn",
              actual |-> <<>>, diff |-> <<>>, pct |-> <<>>]

\* print_comparison_table(environments): the expected value of each row
TableExpected(key) ==
    IF key = K_val_loss THEN FloatV(350, 3)
    ELSE IF key = K_accuracy THEN FloatV(846, 3)
    ELSE FloatV(893, 3)

\* print_comparison_table({'docker': docker_results}): the difference column
\* of the row of a metric, N/A when the value is missing or not a number
TableRow(docker_results, key) ==
    LET expected    == TableExpected(key)
        your_result == DictGet(docker_results, key, StrV(<<"N", "/", "A">>))
    IN  IF IsNumber(your_result)
        THEN [kind   |-> "row",
              name   |-> key,
              status |-> "",
              actual |-> FormatFixed(expected.n, Pow10(expected.s), 4, FALSE),
              diff   |-> FormatFixed(Diff(your_result, expected).num,
                                     Diff(your_result, expected).den, 4, TRUE),
              pct    |-> FormatFixed(DiffPct(your_result, expected).num,
                                     DiffPct(your_result, expected).den, 1, TRUE)]
        ELSE [kind |-> "row", name |-> key, status |-> "",
              actual |-> FormatFixed(expected.n, Pow10(expected.s), 4, FALSE),
              diff |-> <<"N", "/", "A">>, pct |-> <<>>]

\* a printed line that carries no figures
Line(kind, name) ==
    [kind |-> kind, name |-> name, status |-> "", actual |-> <<>>,
     diff |-> <<>>, pct |-> <<>>]

\* all(metric in docker_results for metric in expected_results.keys())
AllMetricsPresent(docker_results) ==
    \A i \in DOMAIN ExpectedKeys : ExpectedKeys[i] \in DOMAIN docker_results

\* the list comprehension of the verdict raises TypeError at the first
\* metric whose value is a str (str - float)
VerdictRaises(docker_results) ==
    \E i \in DOMAIN ExpectedKeys : ~IsNumber(docker_results[ExpectedKeys[i]])

\* all(d < limit for d in diffs)
AllUnder(docker_results, limit) ==
    \A i \in DOMAIN ExpectedKeys :
        PctUnder(DiffPct(docker_results[ExpectedKeys[i]],
                         expected_results(ExpectedKeys[i])), limit)

\* the verdict block: the word of the branch taken
Verdict(docker_results) ==
    IF AllMetricsPresent(docker_results)
    THEN IF AllUnder(docker_results, 2) THEN "excellent"
         ELSE IF AllUnder(docker_results, 5) THEN "good"
         ELSE "notice"
    ELSE "could_not_verify"

(***************************************************************************)
(* State.                                                                  *)
(***************************************************************************)
VARIABLES
    \* extract_metrics_from_checkpoint applied to one filename
    tokens,        \* the dash-delimited tokens the filename is made of
    parse_pc,      \* "build" | "returned"
    parsed,        \* what the call returned: [metrics, printed_error]
    \* the inspector script
    dir_exists,    \* whether the directory "checkpoints" exists
    dir_files,     \* the names of the entries of the directory
    pc,            \* position of main
    checkpoints,   \* the list list_checkpoints returned
    stdout,        \* the lines printed that carry a result
    stderr,        \* the uncaught exception, if any: [exc, raised_in]
    exit_code,     \* exit status of the process, -1 while it runs
    \* the training script
    train_pc,      \* position of main
    argv,          \* the command line: [task_name, numbers_ok]
    environ,       \* [WANDB_API_KEY, WANDB_MODE]
    faults,        \* what the environment makes fail: [netrc, external]
    effects,       \* the steps of main that have taken effect, in order
    train_out,     \* the lines main printed about the credential file
    train_err,     \* the uncaught exception, if any: the call that raised
    train_exit     \* exit status of the process, -1 while it runs

parse_vars == <<tokens, parse_pc, parsed>>
inspect_vars == <<dir_exists, dir_files, pc, checkpoints, stdout, stderr, exit_code>>
train_vars == <<train_pc, argv, environ, faults, effects, train_out, train_err, train_exit>>
vars == <<parse_vars, inspect_vars, train_vars>>

NoReturn == [metrics |-> EmptyDict, printed_error |-> FALSE]

ParseInit ==
    /\ tokens = <<>>
    /\ parse_pc = "build"
    /\ parsed = NoReturn

InspectInit ==
    /\ dir_exists = FALSE
    /\ dir_files = {}
    /\ pc = "setup"
    /\ checkpoints = <<>>
    /\ stdout = <<>>
    /\ stderr = <<>>
    /\ exit_code = -1

TrainIdle ==
    /\ train_pc = "idle"
    /\ argv = [task_name |-> "mrpc", numbers_ok |-> TRUE]
    /\ environ = [WANDB_API_KEY |-> "", WANDB_MODE |-> ""]
    /\ faults = [netrc |-> "none", external |-> "none"]
    /\ effects = <<>>
    /\ train_out = <<>>
    /\ train_err = <<>>
    /\ train_exit = -1

\* nothing has run yet
Init == ParseInit /\ InspectInit /\ TrainIdle

(***************************************************************************)
(* extract_metrics_from_checkpoint on the filenames built from TokenPool.  *)
(***************************************************************************)
\* the path list_checkpoints hands over for a file made of these tokens
PathOfTokens(toks) == PathIn(S_checkpoints, Join(toks, "-") \o S_ckpt)

\* the filename grows by one token
AddToken(tok) ==
    /\ parse_pc = "build"
    /\ Len(tokens) < MaxTokens
    /\ tokens' = Append(tokens, tok)
    /\ UNCHANGED <<parse_pc, parsed, inspect_vars, train_vars>>

\* the call extract_metrics_from_checkpoint(path)
CallExtract ==
    /\ parse_pc = "build"
    /\ parsed' = extract_metrics_from_checkpoint(PathOfTokens(tokens))
    /\ parse_pc' = "returned"
    /\ UNCHANGED <<tokens, inspect_vars, train_vars>>

ParseNext ==
    \/ \E tok \in TokenPool : AddToken(tok)
    \/ CallExtract

SpecParse == Init /\ [][ParseNext]_vars

(***************************************************************************)
(* The inspector: the directory is filled, then main runs.                 *)
(***************************************************************************)
MakeDir ==
    /\ pc = "setup"
    /\ ~dir_exists
    /\ dir_exists' = TRUE
    /\ UNCHANGED <<dir_files, pc, checkpoints, stdout, stderr, exit_code>>
    /\ UNCHANGED <<parse_vars, train_vars>>

PutFile(name) ==
    /\ pc = "setup"
    /\ dir_exists
    /\ name \notin dir_files
    /\ Cardinality(dir_files) < MaxFiles
    /\ dir_files' = dir_files \cup {name}
    /\ UNCHANGED <<dir_exists, pc, checkpoints, stdout, stderr, exit_code>>
    /\ UNCHANGED <<parse_vars, train_vars>>

\* the traceback of an exception nothing catches
Uncaught(exc, raised_in) == [exc |-> exc, raised_in |-> raised_in]

\* main up to the display of the checkpoints: list_checkpoints(), and the
\* early return when the list is empty; an exception of the sort ends the
\* process
MainList ==
    /\ pc = "setup"
    /\ \E order \in Orders(Glob(dir_files)) :
         LET r == list_checkpoints(S_checkpoints, dir_exists, order)
             notice == [i \in DOMAIN r.notice |-> Line("dir_not_found", r.notice[i])]
         IN  IF r.raised
             THEN /\ pc' = "crashed"
                  /\ exit_code' = 1
                  /\ stderr' = <<Uncaught("TypeError", "list_checkpoints")>>
                  /\ UNCHANGED <<checkpoints, stdout>>
             ELSE IF r.ret = <<>>
             THEN /\ pc' = "done"
                  /\ exit_code' = 0
                  /\ checkpoints' = r.ret
                  /\ stdout' = notice \o <<Line("no_checkpoints", <<>>)>>
                  /\ UNCHANGED stderr
             ELSE /\ pc' = "compare"
                  /\ checkpoints' = r.ret
                  /\ UNCHANGED <<stdout, stderr, exit_code>>
    /\ UNCHANGED <<dir_exists, dir_files, parse_vars, train_vars>>

\* the best checkpoint and the loop over expected_results
MainCompare ==
    /\ pc = "compare"
    /\ stdout' = stdout \o <<Line("best", checkpoints[1].filename)>> \o
                 [i \in DOMAIN ExpectedKeys |->
                     ComparisonLine(checkpoints[1].metrics, ExpectedKeys[i])]
    /\ pc' = "verdict"
    /\ UNCHANGED <<dir_exists, dir_files, checkpoints, stderr, exit_code>>
    /\ UNCHANGED <<parse_vars, train_vars>>

\* the verdict block
MainVerdict ==
    /\ pc = "verdict"
    /\ LET docker_results == checkpoints[1].metrics
       IN  IF AllMetricsPresent(docker_results) /\ VerdictRaises(docker_results)
           THEN /\ pc' = "crashed"
                /\ exit_code' = 1
                /\ stderr' = <<Uncaught("TypeError", "main")>>
                /\ UNCHANGED stdout
           ELSE /\ pc' = "report"
                /\ stdout' = Append(stdout, Line("verdict", <<Verdict(docker_results)>>))
                /\ UNCHANGED <<stderr, exit_code>>
    /\ UNCHANGED <<dir_exists, dir_files, checkpoints, parse_vars, train_vars>>

\* analyze_wandb_results(), the next steps, and the end of the script
MainFinish ==
    /\ pc = "report"
    /\ pc' = "done"
    /\ exit_code' = 0
    /\ UNCHANGED <<dir_exists, dir_files, checkpoints, stdout, stderr>>
    /\ UNCHANGED <<parse_vars, train_vars>>

InspectNext ==
    \/ MakeDir
    \/ \E name \in FilePool : PutFile(name)
    \/ MainList
    \/ MainCompare
    \/ MainVerdict
    \/ MainFinish

Spec == Init /\ [][InspectNext]_vars

(***************************************************************************)
(* What the claims speak of, read off the tokens of the filename.          *)
(***************************************************************************)
\* the positions of '=' in a token
EqPositions(tok) == {i \in DOMAIN tok : tok[i] = "="}

\* a key=value segment: exactly one '='
IsKeyValue(tok) == Cardinality(EqPositions(tok)) = 1

EqAt(tok) == CHOOSE i \in EqPositions(tok) : TRUE

KeyOf(tok) == SubSeq(tok, 1, EqAt(tok) - 1)

ValueOf(tok) == SubSeq(tok, EqAt(tok) + 1, Len(tok))

\* a value made of digits
AllDigits(value) == value # <<>> /\ Range(value) \subseteq Digits

\* the key=value segment that speaks last for its key
LastForKey(toks, i) ==
    /\ IsKeyValue(toks[i])
    /\ \A j \in DOMAIN toks :
           (j > i /\ IsKeyValue(toks[j])) => KeyOf(toks[j]) # KeyOf(toks[i])

\* the list without its i-th token
RemoveAt(toks, i) == SubSeq(toks, 1, i - 1) \o SubSeq(toks, i + 1, Len(toks))

\* a=1-b=2.5-c=text
ExampleTokens ==
    << <<"a", "=", "1">>, <<"b", "=", "2", ".", "5">>,
       <<"c", "=", "t", "e", "x", "t">> >>

\* {a: 1, b: 2.5, c: "text"}
ExampleMetrics ==
    (<<"a">> :> IntV(1)) @@ (<<"b">> :> FloatV(25, 1))
        @@ (<<"c">> :> StrV(<<"t", "e", "x", "t">>))

\* the filename is a non-empty dash-delimited list of key=value segments
AllKeyValue(toks) == toks # <<>> /\ \A i \in DOMAIN toks : IsKeyValue(toks[i])

(***************************************************************************)
(* C1.  As claimed: for a filename whose stem is a dash-delimited list of  *)
(* key=value segments the mapping has exactly one entry per key, a value   *)
(* with a decimal point is a float, otherwise a value made of digits is    *)
(* an int, otherwise the value is the original string.                     *)
(***************************************************************************)
C1_AsClaimed ==
    (parse_pc = "returned" /\ AllKeyValue(tokens)) =>
        /\ DOMAIN parsed.metrics = {KeyOf(tokens[i]) : i \in DOMAIN tokens}
        /\ \A i \in DOMAIN tokens :
               LastForKey(tokens, i) =>
                   LET v == ValueOf(tokens[i])
                       m == parsed.metrics[KeyOf(tokens[i])]
                   IN  IF HasDot(v) THEN m.t = "float"
                       ELSE IF AllDigits(v) THEN m = IntV(GroupVal(v, 0))
                       ELSE m = StrV(v)

(***************************************************************************)
(* C1, amended.  For such a filename the mapping has exactly one entry     *)
(* per key; a value with a decimal point is a float when float() accepts   *)
(* it, a value without one is an int when int() accepts it, and every      *)
(* other value (1.2.3, the empty value, text) is the original string; the  *)
(* example a=1-b=2.5-c=text gives {a: 1, b: 2.5, c: "text"}.               *)
(***************************************************************************)
C1_Coercion ==
    (parse_pc = "returned" /\ AllKeyValue(tokens)) =>
        /\ ~parsed.printed_error
        /\ DOMAIN parsed.metrics = {KeyOf(tokens[i]) : i \in DOMAIN tokens}
        /\ \A i \in DOMAIN tokens :
               LastForKey(tokens, i) =>
                   LET v == ValueOf(tokens[i])
                       m == parsed.metrics[KeyOf(tokens[i])]
                   IN  IF HasDot(v) /\ PyFloat(v).ok
                       THEN m.t = "float" /\ m = PyFloat(v).v
                       ELSE IF ~HasDot(v) /\ PyInt(v).ok
                       THEN m.t = "int" /\ m = PyInt(v).v
                       ELSE m = StrV(v)
        /\ tokens = ExampleTokens => parsed.metrics = ExampleMetrics

\* the example filename has been parsed to its three typed entries
C1_Witness ==
    /\ parse_pc = "returned"
    /\ tokens = ExampleTokens
    /\ parsed.metrics = ExampleMetrics

(***************************************************************************)
(* C6.  As claimed: a malformed segment is skipped on its own; the call    *)
(* does not raise, and every well-formed key=value segment of the          *)
(* filename (the last one for its key) is present, coerced, whatever the   *)
(* other segments are.                                                     *)
(***************************************************************************)
C6_AsClaimed ==
    parse_pc = "returned" =>
        \A i \in DOMAIN tokens :
            (LastForKey(tokens, i) /\ KeyOf(tokens[i]) # <<>>
                /\ ValueOf(tokens[i]) # <<>>) =>
                /\ KeyOf(tokens[i]) \in DOMAIN parsed.metrics
                /\ parsed.metrics[KeyOf(tokens[i])] = Coerce(ValueOf(tokens[i]))

(***************************************************************************)
(* C7.  A token without '=' contributes no entry (every key of the         *)
(* mapping is the key of a key=value token), and the mapping is the one    *)
(* obtained for the filename with that token removed.                      *)
(***************************************************************************)
C7_TokenWithoutEqDropped ==
    parse_pc = "returned" =>
        \A i \in DOMAIN tokens :
            EqPositions(tokens[i]) = {} =>
                /\ DOMAIN parsed.metrics \subseteq
                       {KeyOf(tokens[j]) : j \in {k \in DOMAIN tokens : IsKeyValue(tokens[k])}}
                /\ extract_metrics_from_checkpoint(PathOfTokens(RemoveAt(tokens, i))).metrics
                       = parsed.metrics

\* a=1-x-b=2.5 has been parsed: the token x left no entry
C7_Witness ==
    /\ parse_pc = "returned"
    /\ tokens = << <<"a", "=", "1">>, <<"x">>, <<"b", "=", "2", ".", "5">> >>
    /\ DOMAIN parsed.metrics = {<<"a">>, <<"b">>}

(***************************************************************************)
(* What the claims speak of in a run of the inspector.                     *)
(***************************************************************************)
\* list_checkpoints has been called and main has gone on from there
ListCalled == pc # "setup"

\* list_checkpoints raised
ListRaised == \E i \in DOMAIN stderr : stderr[i].raised_in = "list_checkpoints"

\* the verdict block has been entered and left, by a print or by an exception
VerdictStepTaken ==
    \/ pc \in {"report", "done"} /\ checkpoints # <<>>
    \/ pc = "crashed" /\ \E i \in DOMAIN stderr : stderr[i].raised_in = "main"

\* the words of the verdicts printed so far
VerdictsPrinted == {i \in DOMAIN stdout : stdout[i].kind = "verdict"}

HasValLoss(rec) == K_val_loss \in DOMAIN rec.metrics

\* |actual - expected| / expected * 100 < limit, for a number
DeviationUnder(rec, key, limit) ==
    PctUnder(DiffPct(rec.metrics[key], expected_results(key)), limit)

\* the verdict the claim assigns to a record that has the three metrics
ClaimedVerdict(rec) ==
    IF \A i \in DOMAIN ExpectedKeys : DeviationUnder(rec, ExpectedKeys[i], 2)
    THEN "excellent"
    ELSE IF \A i \in DOMAIN ExpectedKeys : DeviationUnder(rec, ExpectedKeys[i], 5)
    THEN "good"
    ELSE "notice"

(***************************************************************************)
(* C2.  As claimed: for every set of *.ckpt files in an existing           *)
(* directory list_checkpoints returns exactly one record per checkpoint    *)
(* file, the records without val_loss after all those with it, and the     *)
(* records with val_loss in strictly ascending order of it.                *)
(***************************************************************************)
C2_AsClaimed ==
    (ListCalled /\ dir_exists) =>
        /\ ~ListRaised
        /\ Len(checkpoints) = Cardinality(Glob(dir_files))
        /\ {checkpoints[i].filename : i \in DOMAIN checkpoints} = Glob(dir_files)
        /\ \A i, j \in DOMAIN checkpoints :
               i < j =>
                   /\ HasValLoss(checkpoints[j]) => HasValLoss(checkpoints[i])
                   /\ (HasValLoss(checkpoints[i]) /\ HasValLoss(checkpoints[j])) =>
                          KeyLess(SortKey(checkpoints[i]), SortKey(checkpoints[j]))

(***************************************************************************)
(* C3.  As claimed: whenever the best checkpoint's record has val_loss,    *)
(* accuracy and f1, exactly one verdict is printed, and it is excellent    *)
(* if every deviation is under 2, otherwise good if every deviation is     *)
(* under 5, otherwise notice.                                              *)
(***************************************************************************)
C3_AsClaimed ==
    (VerdictStepTaken /\ checkpoints # <<>> /\ AllMetricsPresent(checkpoints[1].metrics)) =>
        /\ Cardinality(VerdictsPrinted) = 1
        /\ \A i \in VerdictsPrinted :
               stdout[i].name = <<ClaimedVerdict(checkpoints[1])>>

(***************************************************************************)
(* C4.  As claimed: with epoch=2-step=500-val_loss=0.3400.ckpt the best    *)
(* checkpoint, the comparison of val_loss reports the difference -0.0104   *)
(* and the percentage -2.97%, be it in the comparison main prints or in    *)
(* the row print_comparison_table would print.                             *)
(***************************************************************************)
C4_AsClaimed ==
    (pc \in {"verdict", "report", "done"} /\ checkpoints # <<>>
        /\ checkpoints[1].filename = F1) =>
        \/ \E i \in DOMAIN stdout :
               /\ stdout[i].kind = "metric"
               /\ stdout[i].name = K_val_loss
               /\ stdout[i].diff = <<"-", "0", ".", "0", "1", "0", "4">>
               /\ stdout[i].pct = <<"-", "2", ".", "9", "7">>
        \/ LET row == TableRow(checkpoints[1].metrics, K_val_loss)
           IN  /\ row.diff = <<"-", "0", ".", "0", "1", "0", "4">>
               /\ row.pct = <<"-", "2", ".", "9", "7">>

(***************************************************************************)
(* C4, amended.  With that checkpoint the best one, the comparison of      *)
(* val_loss reports the difference -0.0104 and the percentage -3.0%: the   *)
(* percentage, which is -2.97 to two decimals, is printed with one.        *)
(***************************************************************************)
C4_OneDecimal ==
    (pc \in {"verdict", "report", "done"} /\ checkpoints # <<>>
        /\ checkpoints[1].filename = F1) =>
        /\ \E i \in DOMAIN stdout :
               /\ stdout[i].kind = "metric"
               /\ stdout[i].name = K_val_loss
               /\ stdout[i].status = "warn"
               /\ stdout[i].actual = <<"0", ".", "3", "4", "0", "0">>
               /\ stdout[i].diff = <<"-", "0", ".", "0", "1", "0", "4">>
               /\ stdout[i].pct = <<"-", "3", ".", "0">>
        /\ LET p == DiffPct(checkpoints[1].metrics[K_val_loss],
                            expected_results(K_val_loss))
           IN  FormatFixed(p.num, p.den, 2, TRUE) = <<"-", "2", ".", "9", "7">>

\* the script has finished with that checkpoint the best of several
C4_Witness ==
    /\ pc = "done"
    /\ Len(checkpoints) > 1
    /\ checkpoints[1].filename = F1
    /\ \E i \in DOMAIN stdout : stdout[i].kind = "metric" /\ stdout[i].name = K_val_loss

(***************************************************************************)
(* C5.  As claimed: whatever the checkpoint directory holds, main runs to  *)
(* completion without an uncaught exception and the exit status is 0.      *)
(***************************************************************************)
C5_AsClaimed == pc # "crashed" /\ stderr = <<>> /\ exit_code \in {-1, 0}

(***************************************************************************)
(* C8.  list_checkpoints on a directory that does not exist, or that       *)
(* holds no *.ckpt file, returns an empty list without raising; when the   *)
(* directory does not exist it prints a notice naming the directory.       *)
(***************************************************************************)
C8_EmptyOrMissingDirectory ==
    (ListCalled /\ (~dir_exists \/ Glob(dir_files) = {})) =>
        /\ ~ListRaised
        /\ stderr = <<>>
        /\ checkpoints = <<>>
        /\ pc = "done"
        /\ (~dir_exists) =>
               \E i \in DOMAIN stdout :
                   stdout[i].kind = "dir_not_found" /\ stdout[i].name = S_checkpoints
        /\ dir_exists => \A i \in DOMAIN stdout : stdout[i].kind # "dir_not_found"

\* main has run against a missing directory and printed the notice
C8_Witness ==
    /\ ListCalled
    /\ ~dir_exists
    /\ checkpoints = <<>>
    /\ \E i \in DOMAIN stdout :
           stdout[i].kind = "dir_not_found" /\ stdout[i].name = S_checkpoints

(***************************************************************************)
(* train.py: parse_args and main.  The libraries main calls are the        *)
(* environment: a call to one of them either takes effect or raises, as    *)
(* faults says, and nothing in main catches what it raises.                *)
(***************************************************************************)
\* choices=[...] of --task_name
TaskChoices == {"cola", "sst2", "mrpc", "qqp", "stsb", "mnli", "qnli", "rte", "wnli"}

\* the task names tried on the command line; "" stands for an empty value
TaskInputs == TaskChoices \cup {"MRPC", "sst-2", ""}

\* the calls of main into the libraries, in program order
ExternalCalls ==
    <<"seed_everything", "mkdir", "WandbLogger", "config_update", "GLUEDataModule",
      "GLUETransformer", "ModelCheckpoint", "Trainer", "fit", "finish">>

\* a parser that takes any task name
TaskAccepted_NoChoices(task_name) == TRUE

\* argparse's check of --task_name against choices
TaskAccepted(task_name) == task_name \in TaskChoices

\* if wandb_api_key and os.getenv('WANDB_MODE') != 'offline'; an unset and
\* an empty WANDB_API_KEY are both falsy and are both written ""
CredentialWanted(env) == env.WANDB_API_KEY # "" /\ env.WANDB_MODE # "offline"

\* a block that lets the exception through
FailureCaught_NoHandler(fault) == FALSE

\* except Exception: an OSError of open, write or chmod is caught
FailureCaught(fault) == fault \in {"open", "write", "chmod"}

\* what the try block did to ~/.netrc before the fault, if any, stopped it
NetrcEffects(fault) ==
    CASE fault = "open"  -> <<>>
      [] fault = "write" -> <<"netrc_open">>
      [] fault = "chmod" -> <<"netrc_open", "netrc_write">>
      [] OTHER           -> <<"netrc_open", "netrc_write", "netrc_chmod">>

TrainInit ==
    /\ train_pc = "parse_args"
    /\ argv \in [task_name : TaskInputs, numbers_ok : BOOLEAN]
    /\ environ \in [WANDB_API_KEY : {"", "k3y"}, WANDB_MODE : {"", "offline", "online"}]
    /\ faults \in [netrc : {"none", "open", "write", "chmod"},
                   external : {"none"} \cup {ExternalCalls[i] : i \in DOMAIN ExternalCalls}]
    /\ effects = <<>>
    /\ train_out = <<>>
    /\ train_err = <<>>
    /\ train_exit = -1

InitTrain == ParseInit /\ InspectInit /\ TrainInit

\* args = parse_args(): a usage error ends the process with status 2
ParseArgs ==
    /\ train_pc = "parse_args"
    /\ IF TaskAccepted(argv.task_name) /\ argv.numbers_ok
       THEN /\ train_pc' = "seed_everything"
            /\ UNCHANGED train_exit
       ELSE /\ train_pc' = "usage_error"
            /\ train_exit' = 2
    /\ UNCHANGED <<argv, environ, faults, effects, train_out, train_err>>
    /\ UNCHANGED <<parse_vars, inspect_vars>>

\* one call into a library: it takes effect, or its exception ends the run
CallOutcome(name, next) ==
    IF faults.external = name
    THEN [pc |-> "crashed", effects |-> effects, err |-> <<name>>, exit |-> 1]
    ELSE [pc |-> next, effects |-> Append(effects, name), err |-> train_err,
          exit |-> IF next = "done" THEN 0 ELSE train_exit]

\* L.seed_everything(args.seed)
SeedEverything ==
    /\ train_pc = "seed_everything"
    /\ LET o == CallOutcome("seed_everything", "mkdir")
       IN  /\ train_pc' = o.pc
           /\ effects' = o.effects
           /\ train_err' = o.err
           /\ train_exit' = o.exit
    /\ UNCHANGED <<argv, environ, faults, train_out>>
    /\ UNCHANGED <<parse_vars, inspect_vars>>

\* checkpoint_dir.mkdir(parents=True, exist_ok=True)
MakeCheckpointDir ==
    /\ train_pc = "mkdir"
    /\ LET o == CallOutcome("mkdir", "credentials")
       IN  /\ train_pc' = o.pc
           /\ effects' = o.effects
           /\ train_err' = o.err
           /\ train_exit' = o.exit
    /\ UNCHANGED <<argv, environ, faults, train_out>>
    /\ UNCHANGED <<parse_vars, inspect_vars>>

\* the credential block
ConfigureCredentials ==
    /\ train_pc = "credentials"
    /\ IF ~CredentialWanted(environ)
       THEN /\ train_pc' = "WandbLogger"
            /\ UNCHANGED <<effects, train_out, train_err, train_exit>>
       ELSE IF faults.netrc = "none"
       THEN /\ train_pc' = "WandbLogger"
            /\ effects' = effects \o NetrcEffects(faults.netrc)
            /\ train_out' = Append(train_out, "configured")
            /\ UNCHANGED <<train_err, train_exit>>
       ELSE IF FailureCaught(faults.netrc)
       THEN /\ train_pc' = "WandbLogger"
            /\ effects' = effects \o NetrcEffects(faults.netrc)
            /\ train_out' = Append(train_out, "warning")
            /\ UNCHANGED <<train_err, train_exit>>
       ELSE /\ train_pc' = "crashed"
            /\ effects' = effects \o NetrcEffects(faults.netrc)
            /\ train_err' = <<"credentials">>
            /\ train_exit' = 1
            /\ UNCHANGED train_out
    /\ UNCHANGED <<argv, environ, faults>>
    /\ UNCHANGED <<parse_vars, inspect_vars>>

\* wandb_logger = WandbLogger(...)
CreateLogger ==
    /\ train_pc = "WandbLogger"
    /\ LET o == CallOutcome("WandbLogger", "config_update")
       IN  /\ train_pc' = o.pc
           /\ effects' = o.effects
           /\ train_err' = o.err
           /\ train_exit' = o.exit
    /\ UNCHANGED <<argv, environ, faults, train_out>>
    /\ UNCHANGED <<parse_vars, inspect_vars>>

\* wandb_logger.experiment.config.update({...})
LogHyperparameters ==
    /\ train_pc = "config_update"
    /\ LET o == CallOutcome("config_update", "GLUEDataModule")
       IN  /\ train_pc' = o.pc
           /\ effects' = o.effects
           /\ train_err' = o.err
           /\ train_exit' = o.exit
    /\ UNCHANGED <<argv, environ, faults, train_out>>
    /\ UNCHANGED <<parse_vars, inspect_vars>>

\* dm = GLUEDataModule(...); dm.setup("fit")
SetupData ==
    /\ train_pc = "GLUEDataModule"
    /\ LET o == CallOutcome("GLUEDataModule", "GLUETransformer")
       IN  /\ train_pc' = o.pc
           /\ effects' = o.effects
           /\ train_err' = o.err
           /\ train_exit' = o.exit
    /\ UNCHANGED <<argv, environ, faults, train_out>>
    /\ UNCHANGED <<parse_vars, inspect_vars>>

\* model = GLUETransformer(...)
InitModel ==
    /\ train_pc = "GLUETransformer"
    /\ LET o == CallOutcome("GLUETransformer", "ModelCheckpoint")
       IN  /\ train_pc' = o.pc
           /\ effects' = o.effects
           /\ train_err' = o.err
           /\ train_exit' = o.exit
    /\ UNCHANGED <<argv, environ, faults, train_out>>
    /\ UNCHANGED <<parse_vars, inspect_vars>>

\* checkpoint_callback = ModelCheckpoint(...)
MakeCheckpointCallback ==
    /\ train_pc = "ModelCheckpoint"
    /\ LET o == CallOutcome("ModelCheckpoint", "Trainer")
       IN  /\ train_pc' = o.pc
           /\ effects' = o.effects
           /\ train_err' = o.err
           /\ train_exit' = o.exit
    /\ UNCHANGED <<argv, environ, faults, train_out>>
    /\ UNCHANGED <<parse_vars, inspect_vars>>

\* trainer = L.Trainer(...)
CreateTrainer ==
    /\ train_pc = "Trainer"
    /\ LET o == CallOutcome("Trainer", "fit")
       IN  /\ train_pc' = o.pc
           /\ effects' = o.effects
           /\ train_err' = o.err
           /\ train_exit' = o.exit
    /\ UNCHANGED <<argv, environ, faults, train_out>>
    /\ UNCHANGED <<parse_vars, inspect_vars>>

\* trainer.fit(model, datamodule=dm)
Fit ==
    /\ train_pc = "fit"
    /\ LET o == CallOutcome("fit", "finish")
       IN  /\ train_pc' = o.pc
           /\ effects' = o.effects
           /\ train_err' = o.err
           /\ train_exit' = o.exit
    /\ UNCHANGED <<argv, environ, faults, train_out>>
    /\ UNCHANGED <<parse_vars, inspect_vars>>

\* wandb.finish() and the closing prints: the script ends with status 0
Finish ==
    /\ train_pc = "finish"
    /\ LET o == CallOutcome("finish", "done")
       IN  /\ train_pc' = o.pc
           /\ effects' = o.effects
           /\ train_err' = o.err
           /\ train_exit' = o.exit
    /\ UNCHANGED <<argv, environ, faults, train_out>>
    /\ UNCHANGED <<parse_vars, inspect_vars>>

TrainNext ==
    \/ ParseArgs
    \/ SeedEverything
    \/ MakeCheckpointDir
    \/ ConfigureCredentials
    \/ CreateLogger
    \/ LogHyperparameters
    \/ SetupData
    \/ InitModel
    \/ MakeCheckpointCallback
    \/ CreateTrainer
    \/ Fit
    \/ Finish

SpecTrain == InitTrain /\ [][TrainNext]_vars

(***************************************************************************)
(* C9.  With a --task_name outside the nine GLUE task names the run ends   *)
(* in a usage error before any later step of main: nothing is seeded, no   *)
(* directory or credential file is written, no logger, data module, model  *)
(* or trainer is created, and training is never invoked.                   *)
(***************************************************************************)
C9_BadTaskFailsFirst ==
    argv.task_name \notin TaskChoices =>
        /\ train_pc \in {"parse_args", "usage_error"}
        /\ effects = <<>>
        /\ train_out = <<>>
        /\ train_pc = "usage_error" => train_exit = 2

\* the run has ended in the usage error for the task name alone
C9_Witness ==
    /\ train_pc = "usage_error"
    /\ argv.task_name = "sst-2"
    /\ argv.numbers_ok
    /\ train_exit = 2
    /\ effects = <<>>

(***************************************************************************)
(* C10.  With a credential in the environment and the mode not offline, a  *)
(* failure to write the credential file or to set its permissions is       *)
(* caught and reported as a warning, and the run goes on to the logger,    *)
(* the data and model wiring and the training: the failure never ends the  *)
(* process (only a library call that raises later does).                   *)
(***************************************************************************)
PastCredentials ==
    train_pc \in {"WandbLogger", "config_update", "GLUEDataModule", "GLUETransformer",
                  "ModelCheckpoint", "Trainer", "fit", "finish", "done"}

C10_CredentialFailureNotFatal ==
    (CredentialWanted(environ) /\ faults.netrc # "none") =>
        /\ train_err # <<"credentials">>
        /\ (train_pc = "crashed" /\ train_err # <<"seed_everything">>
               /\ train_err # <<"mkdir">>) =>
               /\ train_out = <<"warning">>
               /\ train_err = <<faults.external>>
        /\ PastCredentials => train_out = <<"warning">>
        /\ (train_pc = "done") =>
               /\ train_exit = 0
               /\ \E i \in DOMAIN effects : effects[i] = "fit"
        /\ (PastCredentials /\ faults.external = "none" /\ train_pc # "done") =>
               ENABLED TrainNext

\* the write failed, the warning was printed, and training has run
C10_Witness ==
    /\ train_pc = "done"
    /\ CredentialWanted(environ)
    /\ faults.netrc = "write"
    /\ train_out = <<"warning">>
    /\ \E i \in DOMAIN effects : effects[i] = "WandbLogger"
    /\ \E i \in DOMAIN effects : effects[i] = "fit"

====
